---- MODULE Spec2Model ----
(***************************************************************************)
(* pool-api (main.go): a process that opens a pgx connection pool from     *)
(* DATABASE_URL, registers GET /pool-data and serves the pool_usage table  *)
(* as JSON.  The model covers main's start-up and exit, and the request    *)
(* handler run by several concurrent requests against one shared pool.     *)
(***************************************************************************)
EXTENDS Integers, Sequences, FiniteSets, TLC

(* ---------------------------------------------------------------- bounds *)
NumRequests == 2          \* requests the server dispatches concurrently
MaxRows == 2              \* rows of pool_usage
MaxTimestamp == 1         \* timestamps are hours 0..MaxTimestamp of one day
MaxConns == 2             \* size of the pool (pool_max_conns)

Requests == 1..NumRequests

(* ------------------------------------------------------- program strings *)
StatusOK == 200
StatusInternalServerError == 500
QueryFailedMsg == "Failed to query the database"
ScanFailedMsg == "Failed to scan row"
EncodeFailedMsg == "Failed to encode response"
CORS == "Access-Control-Allow-Origin"
ContentType == "Content-Type"
NoSniff == "X-Content-Type-Options"
ApplicationJSON == "application/json"
TextPlain == "text/plain; charset=utf-8"
Route == "/pool-data"
HeaderNames == {CORS, ContentType, NoSniff}

(* The values DATABASE_URL can have: unset or empty, not a connection      *)
(* string, a connection string.                                            *)
UrlUnset == ""
UrlBad == "::not-a-url::"
UrlGood == "postgres://db/pool"
Urls == {UrlUnset, UrlBad, UrlGood}

NoError == "nil"

VARIABLES
    DATABASE_URL,   \* the environment variable, fixed for the run
    table,          \* pool_usage in storage order, fixed for the run
    pc,             \* main: "start", "register", "listen", "serving", "exited"
    pool,           \* "nil", "open", "closed"
    poolCloseCount, \* calls of pool.Close
    deferred,       \* main's stack of deferred calls
    routes,         \* patterns registered on the default mux
    listener,       \* "none", "bound", "stopped"
    exitCode,       \* -1 while running
    queries,        \* queries issued on the pool
    borrowed,       \* connections borrowed from the pool
    hpc,            \* per request: "idle", "rows", "done"
    w,              \* per request: the http.ResponseWriter
    rows,           \* per request: the pgx.Rows cursor
    dataPoints,     \* per request: the slice collected
    fault           \* per request: the failure this request met, "none" if none

vars == <<DATABASE_URL, table, pc, pool, poolCloseCount, deferred, routes,
          listener, exitCode, queries, borrowed, hpc, w, rows, dataPoints, fault>>
mainVars == <<pc, pool, poolCloseCount, deferred, routes, listener, exitCode>>
reqVars == <<queries, borrowed, hpc, w, rows, dataPoints, fault>>

(* ------------------------------------------------------------ the table *)
(* A stored row; a NULL percentage cannot be scanned into an int.          *)
StoredRow(id, ts, pct, isNull) ==
    [ID |-> id, Timestamp |-> ts, Percentage |-> pct, PercentageNull |-> isNull]

RowData == [Timestamp : 0..MaxTimestamp, PercentageNull : BOOLEAN]

(* The reading stored in row id; its value steers nothing in the program.  *)
PercentageOf(id) == 42 + 45 * (id - 1)

(* The tables of at most MaxRows rows, ids in storage order.               *)
Tables ==
    UNION {{[i \in 1..n |-> StoredRow(i, f[i].Timestamp, PercentageOf(i), f[i].PercentageNull)]
              : f \in [1..n -> RowData]} : n \in 0..MaxRows}

(* ORDER BY timestamp: a stable sort of the stored rows.                   *)
RECURSIVE InsertByTimestamp(_, _)
InsertByTimestamp(sorted, row) ==
    IF sorted = <<>> THEN <<row>>
    ELSE IF Head(sorted).Timestamp <= row.Timestamp
         THEN <<Head(sorted)>> \o InsertByTimestamp(Tail(sorted), row)
         ELSE <<row>> \o sorted

RECURSIVE OrderByTimestamp(_)
OrderByTimestamp(rs) ==
    IF rs = <<>> THEN <<>>
    ELSE InsertByTimestamp(OrderByTimestamp(SubSeq(rs, 1, Len(rs) - 1)), rs[Len(rs)])

(* The query without its ORDER BY clause: the rows as stored.               *)
SelectUnordered(t) == t

(* The result set of the handler's query.                                  *)
SelectPoolUsage(t) == OrderByTimestamp(t)

(* ------------------------------------------------------------ DataPoint *)
DataPoint(id, ts, pct) == [ID |-> id, Timestamp |-> ts, Percentage |-> pct]

(* A loop that drops the error rows.Scan returns.                           *)
ScanErrorIgnored(row) == FALSE

(* rows.Scan(&dp.ID, &dp.Timestamp, &dp.Percentage) *)
ScanFails(row) == row.PercentageNull
Scan(row) == DataPoint(row.ID, row.Timestamp, row.Percentage)

(* var dataPoints []DataPoint: a nil slice; append makes it non-nil.       *)
NilSlice == [isNil |-> TRUE, elems |-> <<>>]
Append_(s, dp) == [isNil |-> FALSE, elems |-> Append(s.elems, dp)]

(* ----------------------------------------------------------- encoding *)
(* time.Time as RFC 3339 text: hour h of 2024-01-01, UTC.                  *)
FormatTime(h) ==
    "2024-01-01T" \o (IF h < 10 THEN "0" ELSE "") \o ToString(h) \o ":00:00Z"

MarshalDataPoint(dp) ==
    "{\"id\":" \o ToString(dp.ID)
      \o ",\"timestamp\":\"" \o FormatTime(dp.Timestamp) \o "\""
      \o ",\"percentage\":" \o ToString(dp.Percentage) \o "}"

RECURSIVE MarshalElems(_)
MarshalElems(s) ==
    IF s = <<>> THEN ""
    ELSE IF Len(s) = 1 THEN MarshalDataPoint(s[1])
    ELSE MarshalDataPoint(s[1]) \o "," \o MarshalElems(Tail(s))

(* json.Marshal of a []DataPoint: a nil slice is null.                     *)
Marshal(s) == IF s.isNil THEN "null" ELSE "[" \o MarshalElems(s.elems) \o "]"

(* What Encoder.Encode writes: the value and a newline.                    *)
EncodeOutput(s) == Marshal(s) \o "\n"

(* ----------------------------------------------------- ResponseWriter *)
NoHeader == [h \in HeaderNames |-> ""]
NewResponse ==
    [header |-> NoHeader, wroteHeader |-> FALSE, status |-> 0,
     sent |-> NoHeader, body |-> "", broken |-> FALSE]

SetHeader(rw, k, v) == [rw EXCEPT !.header[k] = v]

(* The first WriteHeader fixes the status and the headers sent.            *)
WriteHeader(rw, code) ==
    IF rw.wroteHeader THEN rw
    ELSE [rw EXCEPT !.wroteHeader = TRUE, !.status = code, !.sent = rw.header]

Write(rw, s) ==
    LET r1 == WriteHeader(rw, StatusOK)
    IN IF r1.broken THEN r1 ELSE [r1 EXCEPT !.body = @ \o s]

(* A write that fails: the status line is committed, the connection is     *)
(* lost and nothing more reaches the client.                               *)
WriteFails(rw) == [WriteHeader(rw, StatusOK) EXCEPT !.broken = TRUE]

(* http.Error: plain-text headers, the status, the message and a newline.  *)
HttpError(rw, msg, code) ==
    Write(WriteHeader(SetHeader(SetHeader(rw, ContentType, TextPlain), NoSniff, "nosniff"), code),
          msg \o "\n")

(* ------------------------------------------------------------- Init *)
NoRows == [open |-> FALSE, result |-> <<>>, pos |-> 0, err |-> NoError]

Init ==
    /\ DATABASE_URL \in Urls
    /\ table \in Tables
    /\ pc = "start"
    /\ pool = "nil"
    /\ poolCloseCount = 0
    /\ deferred = <<>>
    /\ routes = {}
    /\ listener = "none"
    /\ exitCode = -1
    /\ queries = 0
    /\ borrowed = 0
    /\ hpc = [r \in Requests |-> "idle"]
    /\ w = [r \in Requests |-> NewResponse]
    /\ rows = [r \in Requests |-> NoRows]
    /\ dataPoints = [r \in Requests |-> NilSlice]
    /\ fault = [r \in Requests |-> "none"]

(* ------------------------------------------------------------- main *)
(* getDatabasePool without the test for an empty DATABASE_URL: ParseConfig *)
(* accepts the empty string and falls back on its defaults.                *)
getDatabasePoolNoEnvCheck(url, ctorOK) ==
    IF url = UrlBad THEN "unable to parse DATABASE_URL"
    ELSE IF ~ctorOK THEN "unable to create connection pool"
    ELSE NoError

(* getDatabasePool: the error it returns, NoError when the pool is made.   *)
getDatabasePool(url, ctorOK) ==
    IF url = UrlUnset THEN "DATABASE_URL environment variable is not set"
    ELSE IF url = UrlBad THEN "unable to parse DATABASE_URL"
    ELSE IF ~ctorOK THEN "unable to create connection pool"
    ELSE NoError

(* log.Fatalf: os.Exit(1); deferred calls do not run.                      *)
LogFatalf ==
    /\ pc' = "exited"
    /\ exitCode' = 1
    /\ listener' = IF listener = "bound" THEN "stopped" ELSE listener
    /\ UNCHANGED <<pool, poolCloseCount, deferred, routes>>

(* main returning: the deferred calls run, then the process exits 0.       *)
MainReturns ==
    /\ pc' = "exited"
    /\ exitCode' = 0
    /\ listener' = IF listener = "bound" THEN "stopped" ELSE listener
    /\ pool' = IF deferred # <<>> THEN "closed" ELSE pool
    /\ poolCloseCount' = poolCloseCount + Len(deferred)
    /\ deferred' = <<>>
    /\ UNCHANGED routes

MainGetPool ==
    /\ pc = "start"
    /\ \E ctorOK \in BOOLEAN :
         LET err == getDatabasePool(DATABASE_URL, ctorOK)
         IN IF err # NoError
            THEN LogFatalf
            ELSE /\ pool' = "open"
                 /\ deferred' = <<"pool.Close">>
                 /\ pc' = "register"
                 /\ UNCHANGED <<poolCloseCount, routes, listener, exitCode>>
    /\ UNCHANGED <<DATABASE_URL, table>>
    /\ UNCHANGED reqVars

MainHandleFunc ==
    /\ pc = "register"
    /\ routes' = routes \cup {Route}
    /\ pc' = "listen"
    /\ UNCHANGED <<pool, poolCloseCount, deferred, listener, exitCode>>
    /\ UNCHANGED <<DATABASE_URL, table>>
    /\ UNCHANGED reqVars

(* The errors ListenAndServe returns; it never returns nil.                *)
BindErrors == {"listen tcp :8080: bind: address already in use"}
ServeErrors == {"accept tcp: use of closed network connection"}

(* if err := http.ListenAndServe(port, nil); err != nil { log.Fatalf } *)
MainAfterListen(err) == IF err # NoError THEN LogFatalf ELSE MainReturns

MainListen ==
    /\ pc = "listen"
    /\ \/ /\ listener' = "bound"
          /\ pc' = "serving"
          /\ UNCHANGED <<pool, poolCloseCount, deferred, routes, exitCode>>
       \/ \E err \in BindErrors : MainAfterListen(err)
    /\ UNCHANGED <<DATABASE_URL, table>>
    /\ UNCHANGED reqVars

MainServeStops ==
    /\ pc = "serving"
    /\ \E err \in ServeErrors : MainAfterListen(err)
    /\ UNCHANGED <<DATABASE_URL, table>>
    /\ UNCHANGED reqVars

(* ---------------------------------------------------------- handler *)
(* The server dispatches a request only while it is listening with the     *)
(* route registered; os.Exit ends every handler still running.             *)
Serving == pc = "serving" /\ Route \in routes

(* A dataPoints slice declared outside the closure: one for all requests.  *)
SharedDataPoints(r) == 1

(* The dataPoints slice request r works on: declared inside the closure,   *)
(* one per invocation.                                                     *)
DataPointsOf(r) == r

(* Both headers set at the top of the handler.                             *)
InitialHeadersWithContentType(rw) ==
    SetHeader(SetHeader(rw, CORS, "*"), ContentType, ApplicationJSON)

(* w.Header().Set("Access-Control-Allow-Origin", "*") *)
InitialHeaders(rw) == SetHeader(rw, CORS, "*")

(* The query-failure branch answering with the scan-failure message.       *)
QueryFailedAsScanFailed(rw) == HttpError(rw, ScanFailedMsg, StatusInternalServerError)

QueryFailedResponse(rw) == HttpError(rw, QueryFailedMsg, StatusInternalServerError)
ScanFailedResponse(rw) == HttpError(rw, ScanFailedMsg, StatusInternalServerError)
EncodeFailedResponse(rw) == HttpError(rw, EncodeFailedMsg, StatusInternalServerError)

(* rows.Close called after the loop instead of deferred: the return inside *)
(* the loop skips it.                                                      *)
CloseAfterLoopOnly(path) == IF path \in {"query", "scan"} THEN {} ELSE {"rows.Close"}

(* The calls deferred when the handler returns on a path: rows.Close is    *)
(* deferred right after the query succeeded.                               *)
DeferredAt(path) == IF path = "query" THEN {} ELSE {"rows.Close"}

(* Running the deferred calls of request r returning on path, the cursors  *)
(* being rs.                                                               *)
RunDeferred(r, path, rs) ==
    LET closes == "rows.Close" \in DeferredAt(path) /\ rs[r].open
    IN /\ rows' = [rs EXCEPT ![r].open = IF closes THEN FALSE ELSE @]
       /\ borrowed' = IF closes THEN borrowed - 1 ELSE borrowed

(* The handler up to the query: the CORS header, then pool.Query, which    *)
(* waits for a free connection; on an error nothing stays borrowed and the *)
(* handler returns.                                                        *)
HandlerQuery(r) ==
    /\ Serving
    /\ hpc[r] = "idle"
    /\ borrowed < MaxConns
    /\ queries' = queries + 1
    /\ \/ /\ rows' = [rows EXCEPT ![r] = [open |-> TRUE, result |-> SelectPoolUsage(table),
                                          pos |-> 0, err |-> NoError]]
          /\ borrowed' = borrowed + 1
          /\ w' = [w EXCEPT ![r] = InitialHeaders(@)]
          /\ hpc' = [hpc EXCEPT ![r] = "rows"]
          /\ UNCHANGED fault
       \/ /\ w' = [w EXCEPT ![r] = QueryFailedResponse(InitialHeaders(@))]
          /\ fault' = [fault EXCEPT ![r] = "query"]
          /\ hpc' = [hpc EXCEPT ![r] = "done"]
          /\ RunDeferred(r, "query", rows)
    /\ UNCHANGED dataPoints
    /\ UNCHANGED <<DATABASE_URL, table>>
    /\ UNCHANGED mainVars

(* for rows.Next(): a row to scan.                                         *)
HandlerRow(r) ==
    /\ Serving
    /\ hpc[r] = "rows"
    /\ rows[r].pos < Len(rows[r].result)
    /\ LET row == rows[r].result[rows[r].pos + 1]
       IN IF ScanFails(row)
          THEN /\ w' = [w EXCEPT ![r] = ScanFailedResponse(@)]
               /\ fault' = [fault EXCEPT ![r] = "scan"]
               /\ hpc' = [hpc EXCEPT ![r] = "done"]
               /\ RunDeferred(r, "scan", rows)
               /\ UNCHANGED dataPoints
          ELSE /\ dataPoints' = [dataPoints EXCEPT
                                   ![DataPointsOf(r)] = Append_(@, Scan(row))]
               /\ rows' = [rows EXCEPT ![r].pos = @ + 1]
               /\ UNCHANGED <<w, fault, hpc, borrowed>>
    /\ UNCHANGED queries
    /\ UNCHANGED <<DATABASE_URL, table>>
    /\ UNCHANGED mainVars

(* Encode marshals the whole value, then writes it in one call; with the   *)
(* table's timestamps inside the years JSON can express, only the write    *)
(* can fail.                                                               *)
EncodeOutcomes == {"ok", "write"}

(* After the loop: the Content-Type header, Encode, and the return with    *)
(* its deferred calls.  e is the value of rows.Err(), which the handler     *)
(* does not read.                                                          *)
EncodeAndReturn(r, e) ==
    LET dps == dataPoints[DataPointsOf(r)]
        w1 == SetHeader(w[r], ContentType, ApplicationJSON)
    IN \E outcome \in EncodeOutcomes :
         /\ w' = [w EXCEPT ![r] =
                    IF outcome = "ok" THEN Write(w1, EncodeOutput(dps))
                    ELSE EncodeFailedResponse(WriteFails(w1))]
         /\ fault' = [fault EXCEPT ![r] = IF outcome = "ok" THEN @ ELSE outcome]
         /\ RunDeferred(r, IF outcome = "ok" THEN "ok" ELSE "encode",
                        [rows EXCEPT ![r].err = e])
         /\ hpc' = [hpc EXCEPT ![r] = "done"]

(* rows.Next() returning false at the end of the result set.               *)
HandlerRowsEnd(r) ==
    /\ Serving
    /\ hpc[r] = "rows"
    /\ rows[r].pos = Len(rows[r].result)
    /\ EncodeAndReturn(r, NoError)
    /\ UNCHANGED <<queries, dataPoints>>
    /\ UNCHANGED <<DATABASE_URL, table>>
    /\ UNCHANGED mainVars

(* rows.Next() returning false because reading from the connection         *)
(* failed: the error stays in rows.Err(), which the handler never reads.   *)
IterationErrors == {"unexpected EOF"}

HandlerRowsError(r) ==
    /\ Serving
    /\ hpc[r] = "rows"
    /\ \E e \in IterationErrors : EncodeAndReturn(r, e)
    /\ UNCHANGED <<queries, dataPoints>>
    /\ UNCHANGED <<DATABASE_URL, table>>
    /\ UNCHANGED mainVars

(* ------------------------------------------------------------- Spec *)
Next ==
    \/ MainGetPool
    \/ MainHandleFunc
    \/ MainListen
    \/ MainServeStops
    \/ \E r \in Requests : HandlerQuery(r)
    \/ \E r \in Requests : HandlerRow(r)
    \/ \E r \in Requests : HandlerRowsEnd(r)
    \/ \E r \in Requests : HandlerRowsError(r)

Spec == Init /\ [][Next]_vars

TypeOK ==
    /\ pc \in {"start", "register", "listen", "serving", "exited"}
    /\ pool \in {"nil", "open", "closed"}
    /\ borrowed \in 0..MaxConns
    /\ \A r \in Requests : hpc[r] \in {"idle", "rows", "done"}

(* ------------------------------------------------------ claim helpers *)
Done(r) == hpc[r] = "done"

(* The rows request r has been handed by rows.Next() so far.               *)
Yielded(r) == SubSeq(rows[r].result, 1, rows[r].pos)

(* The records of a sequence of rows, column for column.                   *)
RecordsOf(rs) == [i \in 1..Len(rs) |-> DataPoint(rs[i].ID, rs[i].Timestamp, rs[i].Percentage)]

(* The text of a JSON array of records.                                    *)
JSONArrayOf(recs) == "[" \o MarshalElems(recs) \o "]"

(* The request met no failure of its own.                                  *)
FaultFree(r) == fault[r] = "none" /\ rows[r].err = NoError

(* C1: when the query succeeds on an empty table, the response is 200 and  *)
(* its body is the empty JSON array [], not null.                          *)
C1_EmptyTableIsEmptyArray ==
    \A r \in Requests :
        (Done(r) /\ FaultFree(r) /\ table = <<>>)
            => (w[r].status = StatusOK /\ w[r].body = "[]" \o "\n")

(* C2: a 200 response to a non-empty table holds exactly one record per    *)
(* row the query yielded, in iteration order: ascending timestamp, ties in *)
(* the stored order, no row dropped, duplicated or reordered.              *)
C2_RecordsInQueryOrder ==
    \A r \in Requests :
        (Done(r) /\ w[r].status = StatusOK /\ ~w[r].broken /\ table # <<>>)
            => LET y == Yielded(r)
               IN /\ w[r].body = (IF y = <<>> THEN "null" ELSE JSONArrayOf(RecordsOf(y))) \o "\n"
                  /\ \A i, j \in 1..Len(y) :
                        i < j => /\ y[i].Timestamp <= y[j].Timestamp
                                 /\ y[i].ID # y[j].ID
                                 /\ (y[i].Timestamp = y[j].Timestamp => y[i].ID < y[j].ID)
                  /\ \A i \in 1..Len(y) : y[i].ID \in 1..Len(table) /\ y[i] = table[y[i].ID]

C2_Witness ==
    \E r \in Requests :
        /\ Done(r) /\ w[r].status = StatusOK /\ ~w[r].broken
        /\ rows[r].pos = Len(table) /\ Len(table) >= 2
        /\ table[1].Timestamp > table[2].Timestamp

(* C3 as stated: a failed query gives status 500 and a body that is        *)
(* exactly the message, no JSON, and no further processing.                *)
C3_QueryFailureBodyExact ==
    \A r \in Requests :
        fault[r] = "query"
            => /\ Done(r)
               /\ w[r].status = StatusInternalServerError
               /\ w[r].body = QueryFailedMsg
               /\ rows[r] = NoRows
               /\ dataPoints[r] = NilSlice

(* C3 amended: a failed query gives status 500, a plain-text body that is  *)
(* the message followed by one newline, no JSON, no row iteration and no   *)
(* encoding.                                                               *)
C3_QueryFailure ==
    \A r \in Requests :
        fault[r] = "query"
            => /\ Done(r)
               /\ w[r].status = StatusInternalServerError
               /\ w[r].body = QueryFailedMsg \o "\n"
               /\ w[r].sent[ContentType] = TextPlain
               /\ rows[r] = NoRows
               /\ dataPoints[r] = NilSlice

C3_Witness ==
    \E r \in Requests : Done(r) /\ fault[r] = "query" /\ table # <<>>

C5_InitBeforeListen ==
    /\ (routes # {} \/ listener # "none" \/ pc \in {"register", "listen", "serving"})
          => (DATABASE_URL = UrlGood /\ pool # "nil")
    /\ (pc = "exited" /\ pool = "nil")
          => (routes = {} /\ listener = "none" /\ exitCode = 1)
    /\ pc \in {"start", "register", "listen"} => queries = 0

C5_Witness ==
    pc = "exited" /\ DATABASE_URL = UrlUnset /\ listener = "none" /\ routes = {}

(* C6: every run that initialized the pool has closed it exactly once      *)
(* when the process has exited.                                            *)
C6_PoolClosedOnce ==
    (pc = "exited" /\ pool # "nil") => (poolCloseCount = 1 /\ pool = "closed")

(* C7: on a stable table every request that met no failure of its own      *)
(* gets the same complete response, holding the whole result set, whatever *)
(* the other requests do; each request collects only its own rows.         *)
C7_NoInterference ==
    /\ \A r \in Requests : dataPoints[r].elems = RecordsOf(Yielded(r))
    /\ \A r \in Requests :
          (Done(r) /\ FaultFree(r))
              => /\ w[r].status = StatusOK /\ ~w[r].broken
                 /\ w[r].body = EncodeOutput(dataPoints[r])
                 /\ dataPoints[r].elems = RecordsOf(SelectPoolUsage(table))
    /\ \A r1, r2 \in Requests :
          (Done(r1) /\ FaultFree(r1) /\ Done(r2) /\ FaultFree(r2)) => w[r1] = w[r2]

C7_Witness ==
    \E r1, r2 \in Requests :
        /\ r1 # r2
        /\ Done(r1) /\ FaultFree(r1) /\ Len(table) >= 2
        /\ hpc[r2] = "rows" /\ rows[r2].pos = 1

(* C8: every response sent carries Access-Control-Allow-Origin: *;         *)
(* Content-Type: application/json is set only once row iteration has       *)
(* finished, and a query or scan failure response never carries it.        *)
C8_Headers ==
    \A r \in Requests :
        /\ w[r].wroteHeader => w[r].sent[CORS] = "*"
        /\ hpc[r] \in {"idle", "rows"}
              => (w[r].header[ContentType] # ApplicationJSON /\ ~w[r].wroteHeader)
        /\ fault[r] \in {"query", "scan"} => w[r].sent[ContentType] # ApplicationJSON
        /\ (Done(r) /\ fault[r] = "none") => w[r].sent[ContentType] = ApplicationJSON

C8_Witness ==
    \E r1, r2 \in Requests :
        /\ Done(r1) /\ fault[r1] = "none" /\ w[r1].sent[CORS] = "*"
        /\ Done(r2) /\ fault[r2] = "query" /\ w[r2].sent[CORS] = "*"

(* C9: a request that has returned holds no open cursor, the connections   *)
(* borrowed are those of the open cursors, and none stays borrowed once    *)
(* every request has completed.                                            *)
C9_CursorsReleased ==
    /\ \A r \in Requests : Done(r) => ~rows[r].open
    /\ borrowed = Cardinality({r \in Requests : rows[r].open})
    /\ (\A r \in Requests : Done(r)) => borrowed = 0

C9_Witness ==
    /\ \A r \in Requests : Done(r)
    /\ \E r \in Requests : fault[r] = "scan"
    /\ \E r \in Requests : fault[r] = "write"

(* C10: a 200 response holds the entire table: it is sent only when the    *)
(* result set was iterated to its end without an error.                    *)
C10_OkMeansWholeTable ==
    \A r \in Requests :
        (Done(r) /\ w[r].status = StatusOK)
            => Len(dataPoints[r].elems) = Len(table)

====
